---- MODULE Spec2Model ----
(***************************************************************************)
(* Compliance gate and sequential approval workflow of the workflow API    *)
(* (server/src/routes/compliance.js, "Workflow API Routes") together with  *)
(* the RAG compliance checker (server/src/services/complianceChecker.js).  *)
(*                                                                         *)
(* The database is modelled table by table: content, workflows and         *)
(* approval_steps.  Spec runs every request handler as one atomic action   *)
(* (completed, non-overlapping calls).  SpecConc runs the Approve handler  *)
(* one awaited database call at a time, so that two requests interleave.   *)
(***************************************************************************)
EXTENDS Integers, Sequences, FiniteSets, TLC

\* ---------------------------------------------------------------- bounds
MaxVersion == 3       \* Edit is not taken once version reaches this value
MaxWorkflows == 2     \* workflow rows ever created (ids 1..MaxWorkflows)
MaxTextLen == 1200    \* length of the longest document handed to chunkText
MaxChunks == 6        \* chunkText is not followed once it holds this many chunks

\* ---------------------------------------------------------------- domains
ContentIds == {"c1"}
Texts == {"t1", "t2"}
NoText == ""                      \* text missing from the request body
Severity == {"high", "medium", "low"}
NoUser == "none"                  \* userId missing from the request body
GhostUser == "ghost"              \* an id that matches no row of users

\* users table: id -> role (roles of the UserRole enum)
Users ==
  [u_mgr |-> "MANAGER", u_legal |-> "LEGAL", u_exec |-> "EXECUTIVE",
   u_admin |-> "ADMIN", u_des |-> "DESIGNER"]

UserIds == DOMAIN Users

DEFAULT_WORKFLOW_STEPS ==
  << [stepNumber |-> 1, requiredRole |-> "MANAGER"],
     [stepNumber |-> 2, requiredRole |-> "LEGAL"],
     [stepNumber |-> 3, requiredRole |-> "EXECUTIVE"] >>

\* ---------------------------------------------------------------- values
Issue(sev, why) == [severity |-> sev, reason |-> why]

\* what the generative backend answers: "error" (call failed, timed out or
\* unparseable) or a parsed JSON object {isCompliant, issues}
\* the severities of the issue lists the backend is asked to return here: no
\* issue, one issue of each severity, and a list that mixes all three
ReplyIssues ==
  { <<>>, <<"medium">>, <<"low">>, <<"high">>, <<"medium", "high", "low", "high">> }

BackendReplies ==
  {[ok |-> FALSE, isCompliant |-> FALSE, issues |-> <<>>]} \cup
  {[ok |-> TRUE, isCompliant |-> c, issues |-> q] :
      c \in BOOLEAN, q \in ReplyIssues}

\* The text the generative backend answers with, before it is parsed.
\*   call:      generateContent resolves ("ok") or rejects ("error")
\*   wrapper:   the body alone, inside a ```json fence, inside a ``` fence,
\*              or in the middle of a sentence
\*   body:      a JSON object, the JSON texts null, 42 and [], text that is
\*              no JSON, text in braces that is no JSON
\*   isCompliant: the JSON value of the member of that name in the object
\*   issuesKind:  the member issues is an array of issue objects, is absent,
\*              or is an array that holds null
Wrappers == {"none", "json_fence", "fence", "prose"}
Bodies == {"object", "null", "number", "array", "garbage", "braces_garbage"}
IsCompliantValues == {"true", "false", "\"true\"", "1", "absent"}

RawResponse(call, wrapper, body, flag, kind, issues) ==
  [call |-> call, wrapper |-> wrapper, body |-> body, isCompliant |-> flag,
   issuesKind |-> kind, issues |-> issues]

RawResponses ==
  {RawResponse("error", "none", "garbage", "absent", "absent", <<>>)}
  \cup {RawResponse("ok", w, b, "absent", "absent", <<>>) :
          w \in Wrappers, b \in Bodies \ {"object"}}
  \cup {RawResponse("ok", w, "object", f, "array", q) :
          w \in Wrappers, f \in IsCompliantValues, q \in ReplyIssues}
  \cup {RawResponse("ok", w, "object", f, k, <<>>) :
          w \in Wrappers, f \in IsCompliantValues, k \in {"absent", "null_element"}}

\* jsonText after trim() and the removal of the markdown fences: the body,
\* or the body with text around it
Stripped(raw) == IF raw.wrapper = "prose" THEN "embedded" ELSE "bare"

\* JSON.parse(jsonText), and on SyntaxError JSON.parse of the match of
\* /\{[\s\S]*\}/ if there is one: the kind of value obtained, or "throw"
ParsedResult(raw) ==
  IF Stripped(raw) = "bare"
  THEN (IF raw.body \in {"object", "null", "number", "array"} THEN raw.body
        ELSE "throw")
  ELSE (IF raw.body = "object" THEN "object" ELSE "throw")

\* mutant: a member that is truthy counts as true
IsExactlyTrue_truthy(flag) == flag \in {"true", "\"true\"", "1"}

\* parsedResult.isCompliant === true
IsExactlyTrue(flag) == flag = "true"

\* what analyzeWithGemini has in hand after the call and the parse: "error"
\* (the call rejected, no JSON was found, or reading the value threw a
\* TypeError: null has no members, a null issue has no text), or the members
\* isCompliant and issues as the normalisation reads them
ParseReply(raw) ==
  LET parsed == ParsedResult(raw)
      error == [ok |-> FALSE, isCompliant |-> FALSE, issues |-> <<>>]
  IN  IF raw.call = "error" \/ parsed \in {"throw", "null"}
      THEN error
      ELSE IF parsed \in {"number", "array"}
      THEN [ok |-> TRUE, isCompliant |-> FALSE, issues |-> <<>>]
      ELSE IF raw.issuesKind = "null_element"
      THEN error
      ELSE [ok |-> TRUE, isCompliant |-> IsExactlyTrue(raw.isCompliant),
            issues |-> IF raw.issuesKind = "array" THEN raw.issues ELSE <<>>]

\* analyzeWithGemini: the normalised reply, or the fallback of its catch block
analyzeWithGemini(reply) ==
  IF reply.ok
  THEN [isCompliant |-> reply.isCompliant,
        issues |-> [i \in 1..Len(reply.issues) |-> Issue(reply.issues[i], "llm")]]
  ELSE [isCompliant |-> FALSE,
        issues |-> << Issue("medium", "api_error") >>]

\* checkCompliance: throws when the retrieval collaborator throws, otherwise
\* returns the analysis
checkCompliance(backend) ==
  IF backend.retrievalOk
  THEN [threw |-> FALSE, verdict |-> analyzeWithGemini(backend.reply)]
  ELSE [threw |-> TRUE, verdict |-> [isCompliant |-> FALSE, issues |-> <<>>]]

\* what the two collaborators do during one checkCompliance call: the vector
\* store throws (and the generative backend is never reached), or it answers
\* and the generative backend replies.  The replies offered to the workflow
\* are those whose isCompliant flag agrees with their issue list; the gate
\* never reads the flag.
ConsistentReplies ==
  {r \in BackendReplies : r.ok => (r.isCompliant <=> r.issues = <<>>)}

Backends ==
  {[retrievalOk |-> FALSE, reply |-> [ok |-> FALSE, isCompliant |-> FALSE, issues |-> <<>>]]}
  \cup {[retrievalOk |-> TRUE, reply |-> r] : r \in ConsistentReplies}

\* The JSONB column content.complianceResult holds SQL NULL, a JSON object
\* (POST /content stores the result object) or a JSON string (PUT /content/:id
\* stores JSON.stringify(result)).  "of" is a ghost field: the text the verdict
\* was computed from.
NoVerdict == [isCompliant |-> FALSE, issues |-> <<>>]
JsonNull == [kind |-> "null", verdict |-> NoVerdict, of |-> NoText]
JsonObject(v, t) == [kind |-> "object", verdict |-> v, of |-> t]
JsonString(v, t) == [kind |-> "string", verdict |-> v, of |-> t]

Truthy(col) == col.kind # "null"

\* JSON.parse(column value): a string parses to the object it encodes; an
\* object is coerced to "[object Object]" and JSON.parse throws SyntaxError
JSONparse(col) ==
  IF col.kind = "string"
  THEN [threw |-> FALSE, verdict |-> col.verdict]
  ELSE [threw |-> TRUE, verdict |-> NoVerdict]

VARIABLES content, workflows, steps, nextWf, resp, reqs

vars == <<content, workflows, steps, nextWf, resp, reqs>>
db == <<content, workflows, steps, nextWf>>

\* a row of content; lastEval is a ghost field: how the last checkCompliance
\* call made for this row ended ("ok", or "failed" when the retrieval threw or
\* the generative backend fell back)
NoContent ==
  [exists |-> FALSE, text |-> NoText, status |-> "DRAFT", version |-> 0,
   complianceResult |-> JsonNull, lastEval |-> "none"]

EvalOutcome(backend) ==
  IF backend.retrievalOk /\ backend.reply.ok THEN "ok" ELSE "failed"

\* the HTTP response of the last completed request: the handler, the status
\* code, the error and (for a blocked Submit) the complianceIssues of the body
Response(op, code, err) ==
  [op |-> op, code |-> code, error |-> err, issues |-> <<>>, required |-> ""]

\* requests in flight (SpecConc): where each handler stands, its arguments
\* and the rows it read at its first query
ProcIds == {"p1", "p2"}
NoStepRow ==
  [id |-> <<0, 0>>, workflowId |-> 0, stepNumber |-> 0, requiredRole |-> "",
   status |-> "", assigneeId |-> NoUser, feedback |-> "", decided |-> FALSE]
Idle ==
  [pc |-> "idle", op |-> "", sid |-> <<0, 0>>, userId |-> NoUser, feedback |-> "",
   step |-> NoStepRow, contentId |-> "", workflow |-> {}, next |-> {},
   code |-> 0, error |-> ""]

Init ==
  /\ content = [c \in ContentIds |-> NoContent]
  /\ workflows = {}
  /\ steps = {}
  /\ nextWf = 1
  /\ resp = Response("none", 0, "")
  /\ reqs = [p \in ProcIds |-> Idle]

\* ---------------------------------------------------------------- POST /content
CreateContent(id, text, creatorId, backend) ==
  /\ ~content[id].exists
  /\ UNCHANGED <<workflows, steps, nextWf, reqs>>
  /\ IF text = NoText \/ creatorId = NoUser
     THEN /\ resp' = Response("create", 400, "InvalidInput")
          /\ UNCHANGED content
     ELSE LET r == checkCompliance(backend)
              complianceResult == IF r.threw THEN JsonNull ELSE JsonObject(r.verdict, text)
          IN  IF creatorId \notin UserIds
              THEN /\ resp' = Response("create", 500, "ServerError")
                   /\ UNCHANGED content
              ELSE /\ content' = [content EXCEPT ![id] =
                         [exists |-> TRUE, text |-> text, status |-> "DRAFT",
                          version |-> 1, complianceResult |-> complianceResult,
                          lastEval |-> EvalOutcome(backend)]]
                   /\ resp' = Response("create", 201, "")

\* mutant: content may be edited in any status
Editable_always(status) == TRUE

\* ["DRAFT", "CHANGES_REQUESTED"].includes(content.status)
Editable(status) == status \in {"DRAFT", "CHANGES_REQUESTED"}

\* mutant: an edit puts the content back to DRAFT
EditedStatus_toDraft(status) == "DRAFT"

\* the data of content.update names no status: the column keeps its value
EditedStatus(status) == status

\* mutant: the version of the row is written back as it was read
NextVersion_same(version) == version

\* version: content.version + 1
NextVersion(version) == version + 1

\* ---------------------------------------------------------------- PUT /content/:id
EditContent(id, text, backend) ==
  LET c == content[id]
      changed == text # NoText /\ text # c.text
      newText == IF text # NoText THEN text ELSE c.text
      r == checkCompliance(backend)
      parsed == JSONparse(c.complianceResult)
      \* the local variable complianceResult; JsonNull stands for null
      complianceResult ==
        IF changed
        THEN (IF r.threw THEN JsonNull ELSE JsonString(r.verdict, newText))
        ELSE IF Truthy(c.complianceResult)
             THEN JsonString(parsed.verdict, c.complianceResult.of)
             ELSE JsonNull
  IN  /\ UNCHANGED <<workflows, steps, nextWf, reqs>>
      /\ IF ~c.exists
         THEN /\ resp' = Response("edit", 404, "NotFound")
              /\ UNCHANGED content
         ELSE IF ~Editable(c.status)
         THEN /\ resp' = Response("edit", 400, "StateConflict")
              /\ UNCHANGED content
         ELSE IF ~changed /\ Truthy(c.complianceResult) /\ parsed.threw
         THEN /\ resp' = Response("edit", 500, "ServerError")
              /\ UNCHANGED content
         ELSE /\ c.version < MaxVersion
              /\ content' = [content EXCEPT ![id] =
                    [c EXCEPT !.text = newText,
                              !.status = EditedStatus(c.status),
                              !.version = NextVersion(c.version),
                              !.complianceResult =
                                 IF Truthy(complianceResult) THEN complianceResult
                                 ELSE c.complianceResult,
                              !.lastEval = IF changed THEN EvalOutcome(backend) ELSE @]]
              /\ resp' = Response("edit", 200, "")

\* ---------------------------------------------------------------- tables
StepId(wf, n) == <<wf, n>>

WorkflowOf(tbl, cid) == {w \in tbl : w.contentId = cid}
StepsOf(tbl, wf) == {s \in tbl : s.workflowId = wf}
StepRow(tbl, sid) == CHOOSE s \in tbl : s.id = sid
WorkflowRow(tbl, wf) == CHOOSE w \in tbl : w.id = wf

\* prisma.workflow.delete: approval_steps rows go with it (ON DELETE CASCADE)
WorkflowDelete(wf) ==
  [workflows |-> {w \in workflows : w.id # wf},
   steps |-> {s \in steps : s.workflowId # wf}]

\* mutant: currentStep left to the column default of the workflows table
NewWorkflow_columnDefault(wf, cid) ==
  [id |-> wf, contentId |-> cid, currentStep |-> 0, status |-> "ACTIVE"]

\* the rows prisma.workflow.create inserts for a workflow with nested steps
NewWorkflow(wf, cid) ==
  [id |-> wf, contentId |-> cid, currentStep |-> 1, status |-> "ACTIVE"]

NewSteps(wf) ==
  {[id |-> StepId(wf, DEFAULT_WORKFLOW_STEPS[i].stepNumber),
    workflowId |-> wf,
    stepNumber |-> DEFAULT_WORKFLOW_STEPS[i].stepNumber,
    requiredRole |-> DEFAULT_WORKFLOW_STEPS[i].requiredRole,
    status |-> IF DEFAULT_WORKFLOW_STEPS[i].stepNumber = 1 THEN "IN_PROGRESS" ELSE "PENDING",
    assigneeId |-> NoUser, feedback |-> "", decided |-> FALSE] :
      i \in 1..Len(DEFAULT_WORKFLOW_STEPS)}

\* ---------------------------------------------------------------- POST /content/:id/submit
\* compliance.issues?.filter(i => i.severity === "high") || []
HighIssues(issues) == SelectSeq(issues, LAMBDA i : i.severity = "high")

\* the gate of the submit handler: blocked with the high issues, or allowed
ComplianceGate(col) ==
  LET parsed == JSONparse(col)
      highIssues == HighIssues(parsed.verdict.issues)
  IN  IF Truthy(col) /\ ~parsed.threw /\ Len(highIssues) > 0
      THEN [blocked |-> TRUE, issues |-> highIssues]
      ELSE [blocked |-> FALSE, issues |-> <<>>]

Submit(id) ==
  LET c == content[id]
      gate == ComplianceGate(c.complianceResult)
      old == WorkflowOf(workflows, id)
      kept == IF old = {} THEN [workflows |-> workflows, steps |-> steps]
              ELSE WorkflowDelete((CHOOSE w \in old : TRUE).id)
  IN  /\ UNCHANGED reqs
      /\ IF ~c.exists
         THEN /\ resp' = Response("submit", 404, "NotFound")
              /\ UNCHANGED db
         ELSE IF gate.blocked
         THEN /\ resp' = [Response("submit", 400, "Blocked")
                             EXCEPT !.issues = gate.issues]
              /\ UNCHANGED db
         ELSE /\ nextWf <= MaxWorkflows
              /\ workflows' = kept.workflows \cup {NewWorkflow(nextWf, id)}
              /\ steps' = kept.steps \cup NewSteps(nextWf)
              /\ nextWf' = nextWf + 1
              /\ content' = [content EXCEPT ![id].status = "PENDING_REVIEW"]
              /\ resp' = Response("submit", 200, "")

\* ---------------------------------------------------------------- POST /steps/:id/approve
StepIds == {StepId(w, n) : w \in 1..MaxWorkflows, n \in 1..Len(DEFAULT_WORKFLOW_STEPS)}

StepExists(tbl, sid) == \E s \in tbl : s.id = sid

\* mutant: a request without userId does not pass the role check
RoleOk_userRequired(userId, requiredRole) ==
  userId \in UserIds /\ Users[userId] = requiredRole

\* the role check: skipped when the body carries no userId
RoleOk(userId, requiredRole) ==
  userId = NoUser \/ (userId \in UserIds /\ Users[userId] = requiredRole)

\* mutant: the status of the step is not looked at
NotInProgress_ignored(step) == FALSE

\* if (step.status !== "IN_PROGRESS") return 400 "Step is not in progress"
NotInProgress(step) == step.status # "IN_PROGRESS"

\* prisma.approvalStep.update({status: "APPROVED", assigneeId: userId, decidedAt})
\* (an undefined assigneeId leaves the column alone)
ApprovedRow(s, userId) ==
  [s EXCEPT !.status = "APPROVED",
            !.assigneeId = IF userId = NoUser THEN @ ELSE userId,
            !.decided = TRUE]

\* mutant: the feedback of the body is dropped
RejectedRow_noFeedback(s, userId, feedback) ==
  [s EXCEPT !.status = "REJECTED",
            !.assigneeId = IF userId = NoUser THEN @ ELSE userId,
            !.decided = TRUE]

RejectedRow(s, userId, feedback) ==
  [s EXCEPT !.status = "REJECTED",
            !.assigneeId = IF userId = NoUser THEN @ ELSE userId,
            !.feedback = feedback,
            !.decided = TRUE]

\* mutant: the next step is never opened
InProgressRow_notOpened(s) == s

InProgressRow(s) == [s EXCEPT !.status = "IN_PROGRESS"]

\* mutant: every step is taken for the last one
FindNextStep_none(wfSteps, step) == {s \in wfSteps : FALSE}

\* step.workflow.steps.find(s => s.stepNumber === step.stepNumber + 1)
FindNextStep(wfSteps, step) == {s \in wfSteps : s.stepNumber = step.stepNumber + 1}

Approve(sid, userId) ==
  LET step == StepRow(steps, sid)
      wf == WorkflowRow(workflows, step.workflowId)
      nextStep == FindNextStep(StepsOf(steps, step.workflowId), step)
      n == CHOOSE s \in nextStep : TRUE
  IN  /\ UNCHANGED <<nextWf, reqs>>
      /\ IF ~StepExists(steps, sid)
         THEN /\ resp' = Response("approve", 404, "NotFound")
              /\ UNCHANGED <<content, workflows, steps>>
         ELSE IF NotInProgress(step)
         THEN /\ resp' = Response("approve", 400, "StateConflict")
              /\ UNCHANGED <<content, workflows, steps>>
         ELSE IF ~RoleOk(userId, step.requiredRole)
         THEN /\ resp' = [Response("approve", 403, "RoleMismatch")
                            EXCEPT !.required = step.requiredRole]
              /\ UNCHANGED <<content, workflows, steps>>
         ELSE /\ resp' = Response("approve", 200, "")
              /\ IF nextStep # {}
                 THEN /\ steps' = (steps \ {step, n})
                                    \cup {ApprovedRow(step, userId), InProgressRow(n)}
                      /\ workflows' = (workflows \ {wf})
                                    \cup {[wf EXCEPT !.currentStep = n.stepNumber]}
                      /\ content' = [content EXCEPT ![wf.contentId].status = "IN_REVIEW"]
                 ELSE /\ steps' = (steps \ {step}) \cup {ApprovedRow(step, userId)}
                      /\ workflows' = (workflows \ {wf})
                                    \cup {[wf EXCEPT !.status = "COMPLETED"]}
                      /\ content' = [content EXCEPT ![wf.contentId].status = "APPROVED"]

\* ---------------------------------------------------------------- POST /steps/:id/reject
\* "" stands for a body whose feedback is absent or the empty string
Feedbacks == {"", "fix claim X"}

\* mutant: the feedback of the body is not looked at
MissingFeedback_ignored(feedback) == FALSE

\* if (!feedback) return 400 "Feedback is required when rejecting"
MissingFeedback(feedback) == feedback = ""

\* mutant: Reject makes the role check of Approve
RejectRoleOk_asApprove(userId, requiredRole) == RoleOk(userId, requiredRole)

\* between the status check and the update the reject handler compares no
\* role: every userId passes
RejectRoleOk(userId, requiredRole) == TRUE

Reject(sid, userId, feedback) ==
  LET step == StepRow(steps, sid)
      wf == WorkflowRow(workflows, step.workflowId)
  IN  /\ UNCHANGED <<workflows, nextWf, reqs>>
      /\ IF MissingFeedback(feedback)
         THEN /\ resp' = Response("reject", 400, "MissingFeedback")
              /\ UNCHANGED <<content, steps>>
         ELSE IF ~StepExists(steps, sid)
         THEN /\ resp' = Response("reject", 404, "NotFound")
              /\ UNCHANGED <<content, steps>>
         ELSE IF NotInProgress(step)
         THEN /\ resp' = Response("reject", 400, "StateConflict")
              /\ UNCHANGED <<content, steps>>
         ELSE IF ~RejectRoleOk(userId, step.requiredRole)
         THEN /\ resp' = [Response("reject", 403, "RoleMismatch")
                            EXCEPT !.required = step.requiredRole]
              /\ UNCHANGED <<content, steps>>
         ELSE IF userId # NoUser /\ userId \notin UserIds
         THEN \* approval_steps.assigneeId references users: the update throws
              /\ resp' = Response("reject", 500, "ServerError")
              /\ UNCHANGED <<content, steps>>
         ELSE /\ resp' = Response("reject", 200, "")
              /\ steps' = (steps \ {step}) \cup {RejectedRow(step, userId, feedback)}
              /\ content' = [content EXCEPT ![wf.contentId].status = "CHANGES_REQUESTED"]

\* ---------------------------------------------------------------- POST /content/:id/publish
Publish(id) ==
  LET c == content[id]
  IN  /\ UNCHANGED <<workflows, steps, nextWf, reqs>>
      /\ IF ~c.exists
         THEN /\ resp' = Response("publish", 404, "NotFound")
              /\ UNCHANGED content
         ELSE IF c.status # "APPROVED"
         THEN /\ resp' = Response("publish", 400, "NotApproved")
              /\ UNCHANGED content
         ELSE /\ content' = [content EXCEPT ![id].status = "PUBLISHED"]
              /\ resp' = Response("publish", 200, "")

\* the userId values requests are sent with
ActingUsers == {"u_mgr", "u_legal", "u_exec", "u_admin", NoUser, GhostUser}
RejectingUsers == {"u_mgr", "u_admin", NoUser, GhostUser}

\* the step ids requests are sent with: those of the rows of approval_steps
\* and one id that matches no row
RequestStepIds == {s.id : s \in steps} \cup {StepId(nextWf, 1)}

Next ==
  \/ \E sid \in RequestStepIds, userId \in ActingUsers : Approve(sid, userId)
  \/ \E sid \in RequestStepIds, userId \in RejectingUsers, feedback \in Feedbacks :
        Reject(sid, userId, feedback)
  \/ \E id \in ContentIds : Publish(id)
  \/ \E id \in ContentIds, text \in Texts \cup {NoText},
        backend \in Backends :
        EditContent(id, text, backend)
  \/ \E id \in ContentIds : Submit(id)
  \/ \E id \in ContentIds, text \in Texts \cup {NoText},
        creatorId \in {"u_des", NoUser, GhostUser},
        backend \in Backends :
        CreateContent(id, text, creatorId, backend)

Spec == Init /\ [][Next]_vars

\* ================================================================ SpecConc
\* The approve handler, one awaited database call per action.  The lookup of
\* the acting user reads the users table, which no handler writes, and is
\* taken together with the first query.

\* prisma.<table>.update throws when no row has the id
Finish(p, code, err) ==
  reqs' = [reqs EXCEPT ![p] = [@ EXCEPT !.pc = "done", !.code = code, !.error = err]]

Goto(p, pc) == reqs' = [reqs EXCEPT ![p].pc = pc]

\* findUnique of the step with its workflow, content and sibling steps, the
\* status check and the role check
ApproveFind(p, sid, userId) ==
  LET step == StepRow(steps, sid)
      wf == WorkflowRow(workflows, step.workflowId)
      r == [Idle EXCEPT !.op = "approve", !.sid = sid, !.userId = userId]
  IN  /\ reqs[p].pc = "idle"
      /\ UNCHANGED <<db, resp>>
      /\ reqs' = [reqs EXCEPT ![p] =
            IF ~StepExists(steps, sid)
            THEN [r EXCEPT !.pc = "done", !.code = 404, !.error = "NotFound"]
            ELSE IF NotInProgress(step)
            THEN [r EXCEPT !.pc = "done", !.code = 400, !.error = "StateConflict"]
            ELSE IF ~RoleOk(userId, step.requiredRole)
            THEN [r EXCEPT !.pc = "done", !.code = 403, !.error = "RoleMismatch"]
            ELSE [r EXCEPT !.pc = "approve_step", !.step = step,
                           !.contentId = wf.contentId,
                           !.next = {[id |-> s.id, stepNumber |-> s.stepNumber] :
                                       s \in FindNextStep(StepsOf(steps, step.workflowId), step)}]]

\* approvalStep.update of the step to APPROVED
ApproveWriteStep(p) ==
  LET r == reqs[p]
  IN  /\ r.pc = "approve_step"
      /\ UNCHANGED <<content, workflows, nextWf, resp>>
      /\ IF ~StepExists(steps, r.sid)
         THEN /\ Finish(p, 500, "ServerError")
              /\ UNCHANGED steps
         ELSE /\ steps' = (steps \ {StepRow(steps, r.sid)})
                             \cup {ApprovedRow(StepRow(steps, r.sid), r.userId)}
              /\ Goto(p, IF r.next # {} THEN "approve_next" ELSE "approve_complete")

\* approvalStep.update of the next step to IN_PROGRESS
ApproveWriteNext(p) ==
  LET r == reqs[p]
      n == (CHOOSE s \in r.next : TRUE).id
  IN  /\ r.pc = "approve_next"
      /\ UNCHANGED <<content, workflows, nextWf, resp>>
      /\ IF ~StepExists(steps, n)
         THEN /\ Finish(p, 500, "ServerError")
              /\ UNCHANGED steps
         ELSE /\ steps' = (steps \ {StepRow(steps, n)}) \cup {InProgressRow(StepRow(steps, n))}
              /\ Goto(p, "approve_current")

WorkflowExists(tbl, wf) == \E w \in tbl : w.id = wf

\* workflow.update of currentStep
ApproveWriteCurrent(p) ==
  LET r == reqs[p]
      wf == r.step.workflowId
      n == (CHOOSE s \in r.next : TRUE).stepNumber
  IN  /\ r.pc = "approve_current"
      /\ UNCHANGED <<content, steps, nextWf, resp>>
      /\ IF ~WorkflowExists(workflows, wf)
         THEN /\ Finish(p, 500, "ServerError")
              /\ UNCHANGED workflows
         ELSE /\ workflows' = (workflows \ {WorkflowRow(workflows, wf)})
                     \cup {[WorkflowRow(workflows, wf) EXCEPT !.currentStep = n]}
              /\ Goto(p, "approve_review")

\* content.update of status to IN_REVIEW, then the final read and the response
ApproveWriteReview(p) ==
  LET r == reqs[p]
  IN  /\ r.pc = "approve_review"
      /\ UNCHANGED <<workflows, steps, nextWf, resp>>
      /\ content' = [content EXCEPT ![r.contentId].status = "IN_REVIEW"]
      /\ Finish(p, 200, "")

\* workflow.update of status to COMPLETED
ApproveWriteCompleted(p) ==
  LET r == reqs[p]
      wf == r.step.workflowId
  IN  /\ r.pc = "approve_complete"
      /\ UNCHANGED <<content, steps, nextWf, resp>>
      /\ IF ~WorkflowExists(workflows, wf)
         THEN /\ Finish(p, 500, "ServerError")
              /\ UNCHANGED workflows
         ELSE /\ workflows' = (workflows \ {WorkflowRow(workflows, wf)})
                     \cup {[WorkflowRow(workflows, wf) EXCEPT !.status = "COMPLETED"]}
              /\ Goto(p, "approve_approved")

\* content.update of status to APPROVED, then the final read and the response
ApproveWriteApproved(p) ==
  LET r == reqs[p]
  IN  /\ r.pc = "approve_approved"
      /\ UNCHANGED <<workflows, steps, nextWf, resp>>
      /\ content' = [content EXCEPT ![r.contentId].status = "APPROVED"]
      /\ Finish(p, 200, "")

\* The reject handler, one awaited database call per action: the feedback
\* check, findUnique of the step with its workflow and content, and the
\* status check
RejectFind(p, sid, userId, feedback) ==
  LET step == StepRow(steps, sid)
      wf == WorkflowRow(workflows, step.workflowId)
      r == [Idle EXCEPT !.op = "reject", !.sid = sid, !.userId = userId,
                        !.feedback = feedback]
  IN  /\ reqs[p].pc = "idle"
      /\ UNCHANGED <<db, resp>>
      /\ reqs' = [reqs EXCEPT ![p] =
            IF MissingFeedback(feedback)
            THEN [r EXCEPT !.pc = "done", !.code = 400, !.error = "MissingFeedback"]
            ELSE IF ~StepExists(steps, sid)
            THEN [r EXCEPT !.pc = "done", !.code = 404, !.error = "NotFound"]
            ELSE IF NotInProgress(step)
            THEN [r EXCEPT !.pc = "done", !.code = 400, !.error = "StateConflict"]
            ELSE IF ~RejectRoleOk(userId, step.requiredRole)
            THEN [r EXCEPT !.pc = "done", !.code = 403, !.error = "RoleMismatch",
                           !.step = step]
            ELSE [r EXCEPT !.pc = "reject_step", !.step = step,
                           !.contentId = wf.contentId]]

\* approvalStep.update of the step to REJECTED
RejectWriteStep(p) ==
  LET r == reqs[p]
  IN  /\ r.pc = "reject_step"
      /\ UNCHANGED <<content, workflows, nextWf, resp>>
      /\ IF ~StepExists(steps, r.sid)
         THEN /\ Finish(p, 500, "ServerError")
              /\ UNCHANGED steps
         ELSE /\ steps' = (steps \ {StepRow(steps, r.sid)})
                             \cup {RejectedRow(StepRow(steps, r.sid), r.userId, r.feedback)}
              /\ Goto(p, "reject_content")

\* content.update of status to CHANGES_REQUESTED, then the final read and
\* the response
RejectWriteContent(p) ==
  LET r == reqs[p]
  IN  /\ r.pc = "reject_content"
      /\ UNCHANGED <<workflows, steps, nextWf, resp>>
      /\ content' = [content EXCEPT ![r.contentId].status = "CHANGES_REQUESTED"]
      /\ Finish(p, 200, "")

\* res.json / res.status(...).json: the request is over
Respond(p) ==
  /\ reqs[p].pc = "done"
  /\ resp' = [Response(reqs[p].op, reqs[p].code, reqs[p].error)
                 EXCEPT !.required = IF reqs[p].error = "RoleMismatch"
                                     THEN reqs[p].step.requiredRole ELSE ""]
  /\ reqs' = [reqs EXCEPT ![p] = Idle]
  /\ UNCHANGED db

\* the database once content c1 has been created with a clean verdict and
\* submitted: DRAFT -> PENDING_REVIEW, workflow 1 with its three steps
InitConc ==
  /\ content = [c \in ContentIds |->
        [exists |-> TRUE, text |-> "t1", status |-> "PENDING_REVIEW", version |-> 1,
         complianceResult |-> JsonObject([isCompliant |-> TRUE, issues |-> <<>>], "t1"),
         lastEval |-> "ok"]]
  /\ workflows = {NewWorkflow(1, "c1")}
  /\ steps = NewSteps(1)
  /\ nextWf = 2
  /\ resp = Response("submit", 200, "")
  /\ reqs = [p \in ProcIds |-> Idle]

ConcStepIds == {StepId(1, n) : n \in 1..Len(DEFAULT_WORKFLOW_STEPS)}
ConcUsers == {"u_mgr", NoUser}
ConcFeedbacks == Feedbacks \ {""}

NextConc ==
  \/ \E p \in ProcIds, sid \in ConcStepIds, userId \in ConcUsers : ApproveFind(p, sid, userId)
  \/ \E p \in ProcIds : ApproveWriteStep(p)
  \/ \E p \in ProcIds : ApproveWriteNext(p)
  \/ \E p \in ProcIds : ApproveWriteCurrent(p)
  \/ \E p \in ProcIds : ApproveWriteReview(p)
  \/ \E p \in ProcIds : ApproveWriteCompleted(p)
  \/ \E p \in ProcIds : ApproveWriteApproved(p)
  \/ \E p \in ProcIds, sid \in ConcStepIds, userId \in ConcUsers, feedback \in ConcFeedbacks :
        RejectFind(p, sid, userId, feedback)
  \/ \E p \in ProcIds : RejectWriteStep(p)
  \/ \E p \in ProcIds : RejectWriteContent(p)
  \/ \E p \in ProcIds : Respond(p)

SpecConc == InitConc /\ [][NextConc]_vars

\* ================================================================ SpecFail
\* One request at a time, one awaited database call per action, and a
\* database call may reject (connection lost, timeout): the handler's catch
\* answers 500.  No handler opens a transaction.

\* content.findUnique with its workflow, then the compliance gate
SubmitFind(p, id) ==
  LET c == content[id]
      gate == ComplianceGate(c.complianceResult)
      r == [Idle EXCEPT !.op = "submit", !.contentId = id]
  IN  /\ reqs[p].pc = "idle"
      /\ UNCHANGED <<db, resp>>
      /\ reqs' = [reqs EXCEPT ![p] =
            IF ~c.exists
            THEN [r EXCEPT !.pc = "done", !.code = 404, !.error = "NotFound"]
            ELSE IF gate.blocked
            THEN [r EXCEPT !.pc = "done", !.code = 400, !.error = "Blocked"]
            ELSE [r EXCEPT !.pc = IF WorkflowOf(workflows, id) # {}
                                  THEN "submit_delete" ELSE "submit_create",
                           !.workflow = {w.id : w \in WorkflowOf(workflows, id)}]]

\* workflow.delete of content.workflow
SubmitDelete(p) ==
  LET r == reqs[p]
      wf == CHOOSE w \in r.workflow : TRUE
  IN  /\ r.pc = "submit_delete"
      /\ UNCHANGED <<content, nextWf, resp>>
      /\ IF ~WorkflowExists(workflows, wf)
         THEN /\ Finish(p, 500, "ServerError")
              /\ UNCHANGED <<workflows, steps>>
         ELSE /\ workflows' = WorkflowDelete(wf).workflows
              /\ steps' = WorkflowDelete(wf).steps
              /\ Goto(p, "submit_create")

\* mutant: workflows.contentId without its unique index
ContentIdTaken_noIndex(tbl, cid) == FALSE

\* the unique index workflows_contentId_key rejects a second row for a content
ContentIdTaken(tbl, cid) == WorkflowOf(tbl, cid) # {}

\* workflow.create with its nested steps; workflows.contentId is unique
SubmitCreate(p) ==
  LET r == reqs[p]
  IN  /\ r.pc = "submit_create"
      /\ UNCHANGED <<content, resp>>
      /\ IF ContentIdTaken(workflows, r.contentId)
         THEN /\ Finish(p, 500, "ServerError")
              /\ UNCHANGED <<workflows, steps, nextWf>>
         ELSE /\ nextWf <= MaxWorkflows
              /\ workflows' = workflows \cup {NewWorkflow(nextWf, r.contentId)}
              /\ steps' = steps \cup NewSteps(nextWf)
              /\ nextWf' = nextWf + 1
              /\ Goto(p, "submit_content")

\* content.update of status to PENDING_REVIEW, then the response
SubmitWriteContent(p) ==
  LET r == reqs[p]
  IN  /\ r.pc = "submit_content"
      /\ UNCHANGED <<workflows, steps, nextWf, resp>>
      /\ content' = [content EXCEPT ![r.contentId].status = "PENDING_REVIEW"]
      /\ Finish(p, 200, "")

\* the positions at which a handler awaits a write
WritePcs ==
  {"approve_step", "approve_next", "approve_current", "approve_review",
   "approve_complete", "approve_approved",
   "reject_step", "reject_content",
   "submit_delete", "submit_create", "submit_content"}

\* the awaited write rejects: nothing is written, the catch answers 500
WriteFails(p) ==
  /\ reqs[p].pc \in WritePcs
  /\ Finish(p, 500, "ServerError")
  /\ UNCHANGED <<db, resp>>

\* the database once content c1 has been created with a clean verdict
InitFail ==
  /\ content = [c \in ContentIds |->
        [exists |-> TRUE, text |-> "t1", status |-> "DRAFT", version |-> 1,
         complianceResult |-> JsonObject([isCompliant |-> TRUE, issues |-> <<>>], "t1"),
         lastEval |-> "ok"]]
  /\ workflows = {}
  /\ steps = {}
  /\ nextWf = 1
  /\ resp = Response("create", 201, "")
  /\ reqs = [p \in ProcIds |-> Idle]

\* the one request in flight
FailProc == "p1"

NextFail ==
  \/ \E id \in ContentIds : SubmitFind(FailProc, id)
  \/ SubmitDelete(FailProc)
  \/ SubmitCreate(FailProc)
  \/ SubmitWriteContent(FailProc)
  \/ \E sid \in RequestStepIds, userId \in ConcUsers : ApproveFind(FailProc, sid, userId)
  \/ ApproveWriteStep(FailProc)
  \/ ApproveWriteNext(FailProc)
  \/ ApproveWriteCurrent(FailProc)
  \/ ApproveWriteReview(FailProc)
  \/ ApproveWriteCompleted(FailProc)
  \/ ApproveWriteApproved(FailProc)
  \/ \E sid \in RequestStepIds, userId \in ConcUsers, feedback \in Feedbacks :
        RejectFind(FailProc, sid, userId, feedback)
  \/ RejectWriteStep(FailProc)
  \/ RejectWriteContent(FailProc)
  \/ WriteFails(FailProc)
  \/ Respond(FailProc)

SpecFail == InitFail /\ [][NextFail]_vars

\* ================================================================ SpecSubmit
\* Submit calls for one content, interleaved at their database calls; every
\* database call succeeds unless a constraint or a missing row makes it throw.
NextSubmit ==
  \/ \E p \in ProcIds, id \in ContentIds : SubmitFind(p, id)
  \/ \E p \in ProcIds : SubmitDelete(p)
  \/ \E p \in ProcIds : SubmitCreate(p)
  \/ \E p \in ProcIds : SubmitWriteContent(p)
  \/ \E p \in ProcIds : Respond(p)

SpecSubmit == InitFail /\ [][NextSubmit]_vars

\* ================================================================ SpecMix
\* Submit, Approve and Publish requests in flight together, one awaited
\* database call per action, from the state in which the last step of the
\* workflow is open.

\* content.findUnique and the status check
PublishFind(p, id) ==
  LET c == content[id]
      r == [Idle EXCEPT !.op = "publish", !.contentId = id]
  IN  /\ reqs[p].pc = "idle"
      /\ UNCHANGED <<db, resp>>
      /\ reqs' = [reqs EXCEPT ![p] =
            IF ~c.exists
            THEN [r EXCEPT !.pc = "done", !.code = 404, !.error = "NotFound"]
            ELSE IF c.status # "APPROVED"
            THEN [r EXCEPT !.pc = "done", !.code = 400, !.error = "NotApproved"]
            ELSE [r EXCEPT !.pc = "publish_content"]]

\* content.update of status to PUBLISHED, then the response
PublishWrite(p) ==
  LET r == reqs[p]
  IN  /\ r.pc = "publish_content"
      /\ UNCHANGED <<workflows, steps, nextWf, resp>>
      /\ content' = [content EXCEPT ![r.contentId].status = "PUBLISHED"]
      /\ Finish(p, 200, "")

\* the database once content c1 has been created with a clean verdict and
\* submitted and its steps 1 and 2 approved: IN_REVIEW, step 3 IN_PROGRESS
InitMix ==
  /\ content = [c \in ContentIds |->
        [exists |-> TRUE, text |-> "t1", status |-> "IN_REVIEW", version |-> 1,
         complianceResult |-> JsonObject([isCompliant |-> TRUE, issues |-> <<>>], "t1"),
         lastEval |-> "ok"]]
  /\ workflows = {[NewWorkflow(1, "c1") EXCEPT !.currentStep = 3]}
  /\ steps = {IF s.stepNumber < 3 THEN ApprovedRow(InProgressRow(s), NoUser)
                                   ELSE InProgressRow(s) : s \in NewSteps(1)}
  /\ nextWf = 2
  /\ resp = Response("approve", 200, "")
  /\ reqs = [p \in ProcIds |-> Idle]

NextMix ==
  \/ \E p \in ProcIds, id \in ContentIds : SubmitFind(p, id)
  \/ \E p \in ProcIds : SubmitDelete(p)
  \/ \E p \in ProcIds : SubmitCreate(p)
  \/ \E p \in ProcIds : SubmitWriteContent(p)
  \/ \E p \in ProcIds, sid \in {s.id : s \in steps} : ApproveFind(p, sid, NoUser)
  \/ \E p \in ProcIds : ApproveWriteStep(p)
  \/ \E p \in ProcIds : ApproveWriteNext(p)
  \/ \E p \in ProcIds : ApproveWriteCurrent(p)
  \/ \E p \in ProcIds : ApproveWriteReview(p)
  \/ \E p \in ProcIds : ApproveWriteCompleted(p)
  \/ \E p \in ProcIds : ApproveWriteApproved(p)
  \/ \E p \in ProcIds, id \in ContentIds : PublishFind(p, id)
  \/ \E p \in ProcIds : PublishWrite(p)
  \/ \E p \in ProcIds : Respond(p)

SpecMix == InitMix /\ [][NextMix]_vars

\* ================================================================ SpecEval
\* One call of checkCompliance: what the vector store and the generative
\* backend do is drawn at the start, the call returns a verdict or throws.
EvalCall(retrievalOk, raw) ==
  [pc |-> "called", retrievalOk |-> retrievalOk, raw |-> raw]

InitEval ==
  /\ content = [c \in ContentIds |-> NoContent]
  /\ workflows = {}
  /\ steps = {}
  /\ nextWf = 1
  /\ resp = Response("none", 0, "")
  /\ reqs \in {EvalCall(b, raw) : b \in BOOLEAN, raw \in RawResponses}

Evaluate ==
  LET r == checkCompliance([retrievalOk |-> reqs.retrievalOk,
                            reply |-> ParseReply(reqs.raw)])
  IN  /\ reqs.pc = "called"
      /\ reqs' = [reqs EXCEPT !.pc = "returned"]
      /\ resp' = [op |-> "evaluate", threw |-> r.threw, verdict |-> r.verdict]
      /\ UNCHANGED db

NextEval == Evaluate

SpecEval == InitEval /\ [][NextEval]_vars

\* ================================================================ SpecLog
\* POST /check: one checkCompliance call and the two writes to the
\* compliance_checks table it starts, the one of checkCompliance and the one
\* of the route.  Each prisma.complianceCheck.create may reject.

\* result.originalText of a result object that has no such member
Undefined == "undefined"

\* logComplianceCheck: the row it inserts, none when the create rejects or
\* the NOT NULL column inputText is given no value; its catch block keeps the
\* returned promise from rejecting
logComplianceCheck(entry, createOk) ==
  LET created == createOk /\ entry.inputText # Undefined
  IN  [failed |-> ~created,
       rejected |-> FALSE,
       rows |-> IF created THEN << entry >> ELSE <<>>]

\* mutant: the write awaited and its failure passed on to the caller
LogThrows_awaited(logged) == logged.failed

\* logComplianceCheck(...).catch(() => {}), not awaited: what the caller sees
\* thrown
LogThrows(logged) == FALSE

\* checkCompliance with its step 4, the log of the check
checkComplianceLogged(text, backend, createOk) ==
  LET r == checkCompliance(backend)
      logged == logComplianceCheck(
                  [inputText |-> text,
                   isCompliant |-> r.verdict.isCompliant,
                   violationCount |-> Len(r.verdict.issues)], createOk)
  IN  IF r.threw
      THEN [threw |-> TRUE, verdict |-> r.verdict, rows |-> <<>>]
      ELSE [threw |-> LogThrows(logged), verdict |-> r.verdict, rows |-> logged.rows]

\* the handler of POST /check: status code, body and the rows logged
PostCheck(text, backend, createOk) ==
  LET result == checkComplianceLogged(text, backend, createOk[1])
      logged == logComplianceCheck(
                  [inputText |-> Undefined,
                   isCompliant |-> result.verdict.isCompliant,
                   violationCount |-> 0], createOk[2])
      none == [isCompliant |-> FALSE, issues |-> <<>>]
  IN  IF text = NoText
      THEN [code |-> 400, error |-> "InvalidInput", verdict |-> none, rows |-> <<>>]
      ELSE IF result.threw
      THEN [code |-> 500, error |-> "ServerError", verdict |-> none, rows |-> result.rows]
      ELSE IF LogThrows(logged)
      THEN [code |-> 500, error |-> "ServerError", verdict |-> none,
            rows |-> result.rows \o logged.rows]
      ELSE [code |-> 200, error |-> "", verdict |-> result.verdict,
            rows |-> result.rows \o logged.rows]

\* a request: its text, what the collaborators do and whether each of the
\* two inserts goes through; sink is the compliance_checks table
InitLog ==
  /\ content = [c \in ContentIds |-> NoContent]
  /\ workflows = {}
  /\ steps = {}
  /\ nextWf = 1
  /\ resp = Response("none", 0, "")
  /\ reqs \in {[pc |-> "called", text |-> t, retrievalOk |-> b, raw |-> raw,
                 createOk |-> ok, sink |-> <<>>] :
                  t \in {"t1", NoText}, b \in BOOLEAN, raw \in RawResponses,
                  ok \in BOOLEAN \X BOOLEAN}

Check ==
  LET r == PostCheck(reqs.text,
                     [retrievalOk |-> reqs.retrievalOk, reply |-> ParseReply(reqs.raw)],
                     reqs.createOk)
  IN  /\ reqs.pc = "called"
      /\ reqs' = [reqs EXCEPT !.pc = "answered", !.sink = @ \o r.rows]
      /\ resp' = [op |-> "check", code |-> r.code, error |-> r.error,
                  verdict |-> r.verdict]
      /\ UNCHANGED db

NextLog == Check

SpecLog == InitLog /\ [][NextLog]_vars

\* ================================================================ SpecInput
\* The requests that carry a text: POST /check, POST /content and
\* PUT /content/:id, sent with a text, with a text of white space only and
\* with no text.

\* a text of white space only
Blank == " "

\* text.trim()
trim(text) == IF text \in {NoText, Blank} THEN NoText ELSE text

InputTexts == {"t1", Blank, NoText}

\* checkHandler of POST /check and POST /check-compliance
CheckHandler(text, backend) ==
  LET r == checkCompliance(backend)
  IN  /\ UNCHANGED <<db, reqs>>
      /\ IF text = NoText \/ trim(text) = NoText
         THEN resp' = Response("check", 400, "InvalidInput")
         ELSE IF r.threw
         THEN resp' = Response("check", 500, "ServerError")
         ELSE resp' = [Response("check", 200, "") EXCEPT !.issues = r.verdict.issues]

NextInput ==
  \/ \E text \in InputTexts, backend \in Backends : CheckHandler(text, backend)
  \/ \E id \in ContentIds, text \in InputTexts, creatorId \in {"u_des", NoUser},
        backend \in Backends :
        CreateContent(id, text, creatorId, backend)
  \/ \E id \in ContentIds, text \in InputTexts, backend \in Backends :
        EditContent(id, text, backend)

SpecInput == Init /\ [][NextInput]_vars

\* ================================================================ SpecChunk
\* VectorStore.chunkText as indexDocument calls it, one iteration of its
\* while loop per action.  A document is a run of letters or a run of blanks
\* of a given length.

\* the default values of the parameters
chunkSize == 500
overlap == 50

\* text.slice(start, end).trim().length; a negative start counts from the end
ChunkLength(kind, len, start, end) ==
  LET from == IF start < 0
              THEN (IF len + start > 0 THEN len + start ELSE 0)
              ELSE (IF start < len THEN start ELSE len)
      to == IF end < len THEN end ELSE len
  IN  IF kind = "blanks" \/ to <= from THEN 0 ELSE to - from

\* start = end - overlap
NextStart(end) == end - overlap

InitChunk ==
  /\ content = [c \in ContentIds |-> NoContent]
  /\ workflows = {}
  /\ steps = {}
  /\ nextWf = 1
  /\ resp = Response("none", 0, "")
  /\ reqs \in {[pc |-> "called", kind |-> kind, len |-> len, start |-> 0, chunks |-> 0] :
                  kind \in {"letters", "blanks"}, len \in 0..MaxTextLen}

\* const chunks = []; let start = 0; the first test of the while condition
ChunkEnter ==
  /\ reqs.pc = "called"
  /\ reqs' = [reqs EXCEPT !.pc = IF 0 < reqs.len THEN "loop" ELSE "returned"]
  /\ UNCHANGED <<db, resp>>

\* one pass of the loop body, the break and the next test of the condition
ChunkIterate ==
  LET end == IF reqs.start + chunkSize < reqs.len
             THEN reqs.start + chunkSize ELSE reqs.len
      chunk == ChunkLength(reqs.kind, reqs.len, reqs.start, end)
      start == NextStart(end)
  IN  /\ reqs.pc = "loop"
      /\ reqs.chunks < MaxChunks
      /\ reqs' = [reqs EXCEPT !.chunks = IF chunk > 0 THEN @ + 1 ELSE @,
                              !.start = start,
                              !.pc = IF start >= reqs.len THEN "returned" ELSE "loop"]
      /\ UNCHANGED <<db, resp>>

NextChunk == ChunkEnter \/ ChunkIterate

SpecChunk == InitChunk /\ [][NextChunk]_vars

\* ================================================================ SpecRules
\* The rule-matching checker (services/complianceChecker.js, keyword version)
\* and the policy_rules table it reads.  Strings are sequences of characters.

\* "100% waterproof"
P_100_waterproof ==
  <<"1", "0", "0", "%", " ", "w", "a", "t", "e", "r", "p", "r", "o", "o",
     "f">>

\* "water-resistant (IP67 rated)"
S_100_waterproof ==
  <<"w", "a", "t", "e", "r", "-", "r", "e", "s", "i", "s", "t", "a", "n", "t",
     " ", "(", "I", "P", "6", "7", " ", "r", "a", "t", "e", "d", ")">>

\* "waterproof"
P_waterproof ==
  <<"w", "a", "t", "e", "r", "p", "r", "o", "o", "f">>

\* "water-resistant"
S_waterproof ==
  <<"w", "a", "t", "e", "r", "-", "r", "e", "s", "i", "s", "t", "a", "n",
     "t">>

\* "guaranteed"
P_guaranteed ==
  <<"g", "u", "a", "r", "a", "n", "t", "e", "e", "d">>

\* "designed to"
S_guaranteed ==
  <<"d", "e", "s", "i", "g", "n", "e", "d", " ", "t", "o">>

\* "best in class"
P_best_in_class ==
  <<"b", "e", "s", "t", " ", "i", "n", " ", "c", "l", "a", "s", "s">>

\* "industry-leading"
S_best_in_class ==
  <<"i", "n", "d", "u", "s", "t", "r", "y", "-", "l", "e", "a", "d", "i", "n",
     "g">>

\* "never fails"
P_never_fails ==
  <<"n", "e", "v", "e", "r", " ", "f", "a", "i", "l", "s">>

\* "highly reliable"
S_never_fails ==
  <<"h", "i", "g", "h", "l", "y", " ", "r", "e", "l", "i", "a", "b", "l",
     "e">>

\* "cures"
P_cures ==
  <<"c", "u", "r", "e", "s">>

\* "may help with"
S_cures ==
  <<"m", "a", "y", " ", "h", "e", "l", "p", " ", "w", "i", "t", "h">>

\* "safe for all ages"
P_safe_for_all_ages ==
  <<"s", "a", "f", "e", " ", "f", "o", "r", " ", "a", "l", "l", " ", "a", "g",
     "e", "s">>

\* "suitable for most users"
S_safe_for_all_ages ==
  <<"s", "u", "i", "t", "a", "b", "l", "e", " ", "f", "o", "r", " ", "m", "o",
     "s", "t", " ", "u", "s", "e", "r", "s">>

\* "unlimited"
P_unlimited ==
  <<"u", "n", "l", "i", "m", "i", "t", "e", "d">>

\* "extensive"
S_unlimited ==
  <<"e", "x", "t", "e", "n", "s", "i", "v", "e">>

\* "free"
P_free ==
  <<"f", "r", "e", "e">>

\* "included at no extra cost"
S_free ==
  <<"i", "n", "c", "l", "u", "d", "e", "d", " ", "a", "t", " ", "n", "o", " ",
     "e", "x", "t", "r", "a", " ", "c", "o", "s", "t">>

\* "scientifically proven"
P_scientifically_proven ==
  <<"s", "c", "i", "e", "n", "t", "i", "f", "i", "c", "a", "l", "l", "y", " ",
     "p", "r", "o", "v", "e", "n">>

\* "backed by research"
S_scientifically_proven ==
  <<"b", "a", "c", "k", "e", "d", " ", "b", "y", " ", "r", "e", "s", "e", "a",
     "r", "c", "h">>

\* "not guaranteed"
S_not_guaranteed ==
  <<"n", "o", "t", " ", "g", "u", "a", "r", "a", "n", "t", "e", "e", "d">>

\* "Our phone is 100% waterproof and guaranteed to never fail."
T_ScenarioA ==
  <<"O", "u", "r", " ", "p", "h", "o", "n", "e", " ", "i", "s", " ", "1", "0",
     "0", "%", " ", "w", "a", "t", "e", "r", "p", "r", "o", "o", "f", " ", "a",
     "n", "d", " ", "g", "u", "a", "r", "a", "n", "t", "e", "e", "d", " ", "t",
     "o", " ", "n", "e", "v", "e", "r", " ", "f", "a", "i", "l", ".">>

\* "Our phone is water-resistant (IP67 rated) and designed to to never fail."
T_Rewritten ==
  <<"O", "u", "r", " ", "p", "h", "o", "n", "e", " ", "i", "s", " ", "w", "a",
     "t", "e", "r", "-", "r", "e", "s", "i", "s", "t", "a", "n", "t", " ", "(",
     "I", "P", "6", "7", " ", "r", "a", "t", "e", "d", ")", " ", "a", "n", "d",
     " ", "d", "e", "s", "i", "g", "n", "e", "d", " ", "t", "o", " ", "t", "o",
     " ", "n", "e", "v", "e", "r", " ", "f", "a", "i", "l", ".">>

\* "100% WATERPROOF, Guaranteed!"
T_Shouting ==
  <<"1", "0", "0", "%", " ", "W", "A", "T", "E", "R", "P", "R", "O", "O", "F",
     ",", " ", "G", "u", "a", "r", "a", "n", "t", "e", "e", "d", "!">>

\* "Our phone is light."
T_Clean ==
  <<"O", "u", "r", " ", "p", "h", "o", "n", "e", " ", "i", "s", " ", "l", "i",
     "g", "h", "t", ".">>

\* "Free trial, guaranteed. Never fails"
T_FreeTrial ==
  <<"F", "r", "e", "e", " ", "t", "r", "i", "a", "l", ",", " ", "g", "u", "a",
     "r", "a", "n", "t", "e", "e", "d", ".", " ", "N", "e", "v", "e", "r", " ",
     "f", "a", "i", "l", "s">>

\* String.prototype.toLowerCase, for the letters of the strings above
UpperCase == <<"A", "F", "G", "I", "O", "P", "W", "T", "E", "R", "H", "U", "N", "D">>
LowerCase == <<"a", "f", "g", "i", "o", "p", "w", "t", "e", "r", "h", "u", "n", "d">>

LowerChar(c) ==
  IF \E k \in 1..Len(UpperCase) : UpperCase[k] = c
  THEN LowerCase[CHOOSE k \in 1..Len(UpperCase) : UpperCase[k] = c]
  ELSE c

toLowerCase(s) == [i \in 1..Len(s) |-> LowerChar(s[i])]

\* p occurs in s at position i
OccursAt(s, p, i) ==
  /\ i + Len(p) - 1 <= Len(s)
  /\ \A k \in 1..Len(p) : s[i + k - 1] = p[k]

\* String.prototype.includes
includes(s, p) == \E i \in 1..(Len(s) + 1) : OccursAt(s, p, i)

\* the matches of a literal pattern under the flags "gi", from position i
\* on: letter case is ignored (ls and lp are s and the pattern in lower
\* case), matches are found from left to right and do not overlap
RECURSIVE ReplaceFrom(_, _, _, _, _)
ReplaceFrom(s, ls, lp, r, i) ==
  IF i > Len(s) THEN <<>>
  ELSE IF OccursAt(ls, lp, i)
       THEN r \o ReplaceFrom(s, ls, lp, r, i + Len(lp))
       ELSE <<s[i]>> \o ReplaceFrom(s, ls, lp, r, i + 1)

\* s.replace(new RegExp(escapeRegex(p), "gi"), r): escapeRegex makes the
\* pattern literal.  (The suggestions here hold no "$", so the replacement
\* string is inserted as it is.)
replace(s, p, r) == ReplaceFrom(s, toLowerCase(s), toLowerCase(p), r, 1)

\* a rule; createdAt is its rank in the order of creation (for the rules of
\* an array literal, its place in the array)
Rule(pattern, suggestion, severity, createdAt) ==
  [pattern |-> pattern, suggestion |-> suggestion, severity |-> severity,
   isActive |-> TRUE, createdAt |-> createdAt]

FALLBACK_RULES ==
  << Rule(P_100_waterproof, S_100_waterproof, "high", 1),
     Rule(P_waterproof, S_waterproof, "medium", 2),
     Rule(P_guaranteed, S_guaranteed, "medium", 3),
     Rule(P_never_fails, S_never_fails, "high", 4) >>

\* the table policy_rules after the seed script: a sequence of rows in the
\* order in which a scan of the table meets them
DEMO_RULES ==
  << Rule(P_100_waterproof, S_100_waterproof, "high", 1),
     Rule(P_waterproof, S_waterproof, "medium", 2),
     Rule(P_guaranteed, S_guaranteed, "medium", 3),
     Rule(P_best_in_class, S_best_in_class, "low", 4),
     Rule(P_never_fails, S_never_fails, "high", 5),
     Rule(P_cures, S_cures, "high", 6),
     Rule(P_safe_for_all_ages, S_safe_for_all_ages, "medium", 7),
     Rule(P_unlimited, S_unlimited, "medium", 8),
     Rule(P_free, S_free, "medium", 9),
     Rule(P_scientifically_proven, S_scientifically_proven, "high", 10) >>

\* PUT /api/rules/:id {isActive: false} on every rule
Deactivated(table) == [i \in DOMAIN table |-> [table[i] EXCEPT !.isActive = FALSE]]

\* PUT /api/rules/:id on the first row: the database writes the new version
\* of the row behind the other rows
Updated(table) == Tail(table) \o <<Head(table)>>

\* rules created through POST /api/rules: a suggestion may hold the pattern
\* it replaces, and rules may share a severity
CUSTOM_RULES ==
  << Rule(P_guaranteed, S_not_guaranteed, "medium", 1),
     Rule(P_free, S_free, "medium", 2),
     Rule(P_never_fails, S_never_fails, "high", 3),
     Rule(P_best_in_class, S_best_in_class, "low", 4) >>

\* the contents of policy_rules the checker is run against
RuleTables ==
  {<<>>, DEMO_RULES, Deactivated(DEMO_RULES), CUSTOM_RULES, Updated(CUSTOM_RULES)}

\* the texts that are checked
CheckTexts == {<<>>, T_ScenarioA, T_Rewritten, T_Shouting, T_Clean, T_FreeTrial}

\* ORDER BY severity DESC compares the column as text: medium, low, high
SeverityDesc == <<"medium", "low", "high">>

\* prisma.policyRule.findMany({where: {isActive: true},
\*                             orderBy: {severity: "desc"}}): the query names
\* no second sort key, rows of one severity come as the scan meets them
findMany(table) ==
  LET Of(severity) == SelectSeq(table, LAMBDA r : r.isActive /\ r.severity = severity)
  IN  Of(SeverityDesc[1]) \o Of(SeverityDesc[2]) \o Of(SeverityDesc[3])

\* getRules: the rows found, or FALLBACK_RULES when there is none or the
\* query throws
getRules(table, dbOk) ==
  IF dbOk /\ Len(findMany(table)) > 0 THEN findMany(table) ELSE FALLBACK_RULES

\* const severityOrder = { high: 0, medium: 1, low: 2 }
severityOrder == [high |-> 0, medium |-> 1, low |-> 2]

\* Array.prototype.sort with a comparator a.key - b.key: stable, ascending.
\* keys[i] is the key of seq[i].
RECURSIVE InsertByKey(_, _)
InsertByKey(sorted, e) ==
  IF sorted = <<>> THEN <<e>>
  ELSE IF e.key < Head(sorted).key
       THEN <<e>> \o sorted
       ELSE <<Head(sorted)>> \o InsertByKey(Tail(sorted), e)

RECURSIVE SortKeyed(_)
SortKeyed(es) ==
  IF es = <<>> THEN <<>>
  ELSE InsertByKey(SortKeyed(SubSeq(es, 1, Len(es) - 1)), es[Len(es)])

SortByKey(seq, keys) ==
  LET sorted == SortKeyed([i \in 1..Len(seq) |-> [key |-> keys[i], val |-> seq[i]]])
  IN  [i \in 1..Len(seq) |-> sorted[i].val]

\* generateRewrite: the violations, longest pattern first, replaced one
\* after the other
RECURSIVE ReplaceEach(_, _)
ReplaceEach(text, vs) ==
  IF vs = <<>> THEN text
  ELSE ReplaceEach(replace(text, Head(vs).pattern, Head(vs).suggestion), Tail(vs))

\* mutant: the shortest pattern is replaced first
generateRewrite_shortestFirst(text, violations) ==
  LET sortedViolations ==
        SortByKey(violations, [i \in 1..Len(violations) |-> Len(violations[i].pattern)])
  IN  ReplaceEach(text, sortedViolations)

generateRewrite(text, violations) ==
  LET sortedViolations == SortByKey(violations, [i \in 1..Len(violations) |-> 0 - Len(violations[i].pattern)])
  IN  ReplaceEach(text, sortedViolations)

\* mutant: the loop over the rules stops at the first rule that matches
MatchedRules_firstOnly(rules, lowerText) ==
  LET all == SelectSeq(rules, LAMBDA rule : includes(lowerText, toLowerCase(rule.pattern)))
  IN  IF all = <<>> THEN <<>> ELSE << Head(all) >>

\* for (const rule of rules): every rule whose lowered pattern the lowered
\* text includes, in the order of the rules
MatchedRules(rules, lowerText) ==
  SelectSeq(rules, LAMBDA rule : includes(lowerText, toLowerCase(rule.pattern)))

\* checkCompliance of the rule-matching checker, for the rules getRules gave
checkComplianceRules(rules, text) ==
  LET lowerText == toLowerCase(text)
      matched == MatchedRules(rules, lowerText)
      violations == SortByKey(matched, [i \in 1..Len(matched) |-> severityOrder[matched[i].severity]])
  IN  [isCompliant |-> Len(violations) = 0,
       violations |-> violations,
       suggestedRewrite |-> generateRewrite(text, violations),
       originalText |-> text]

\* a table and a text, checked twice; each check reads the table anew
NoResult ==
  [isCompliant |-> FALSE, violations |-> <<>>, suggestedRewrite |-> <<>>,
   originalText |-> <<>>]

RuleCall(table, text) ==
  [pc |-> "first", table |-> table, text |-> text, dbOk |-> <<>>,
   first |-> NoResult, second |-> NoResult]

InitRules ==
  /\ content = [c \in ContentIds |-> NoContent]
  /\ workflows = {}
  /\ steps = {}
  /\ nextWf = 1
  /\ resp = Response("none", 0, "")
  /\ reqs \in {RuleCall(table, text) : table \in RuleTables, text \in CheckTexts}

CheckFirst(dbOk) ==
  LET r == checkComplianceRules(getRules(reqs.table, dbOk), reqs.text)
  IN  /\ reqs.pc = "first"
      /\ reqs' = [reqs EXCEPT !.pc = "second", !.first = r, !.dbOk = <<dbOk>>]
      /\ resp' = [op |-> "check", code |-> 200, result |-> r]
      /\ UNCHANGED db

CheckSecond(dbOk) ==
  LET r == checkComplianceRules(getRules(reqs.table, dbOk), reqs.text)
  IN  /\ reqs.pc = "second"
      /\ reqs' = [reqs EXCEPT !.pc = "done", !.second = r, !.dbOk = @ \o <<dbOk>>]
      /\ resp' = [op |-> "check", code |-> 200, result |-> r]
      /\ UNCHANGED db

NextRules ==
  \/ \E dbOk \in BOOLEAN : CheckFirst(dbOk)
  \/ \E dbOk \in BOOLEAN : CheckSecond(dbOk)

SpecRules == InitRules /\ [][NextRules]_vars

\* ================================================================ properties
InProgressSteps(w) == {s \in StepsOf(steps, w.id) : s.status = "IN_PROGRESS"}
StepsWith(w, status) == {s \in StepsOf(steps, w.id) : s.status = status}

SubmitSucceeded == resp.op = "submit" /\ resp.code = 200
SubmitBlocked == resp.op = "submit" /\ resp.error = "Blocked"
ApproveSucceeded == resp.op = "approve" /\ resp.code = 200

\* the stored result has an issue of severity high
HasHigh(col) ==
  col.kind # "null" /\ \E i \in 1..Len(col.verdict.issues) : col.verdict.issues[i].severity = "high"

\* C1: after completed, non-overlapping calls, every ACTIVE workflow has
\* exactly one IN_PROGRESS step and its stepNumber equals currentStep.
C1_ActiveHasOneInProgress ==
  \A w \in workflows :
    w.status = "ACTIVE" =>
      /\ Cardinality(InProgressSteps(w)) = 1
      /\ \A s \in InProgressSteps(w) : s.stepNumber = w.currentStep

\* C3: Submit answers Blocked if and only if the stored result has an issue
\* of severity high, and then returns exactly the high issues of that result.
\* (Submit leaves the stored result alone, so the state after the call shows
\* the result the gate examined.)
C3_GateBlocksIffHigh ==
  \A id \in ContentIds :
    (resp.op = "submit" /\ resp.code \in {200, 400}) =>
      /\ SubmitBlocked <=> HasHigh(content[id].complianceResult)
      /\ SubmitBlocked => resp.issues = HighIssues(content[id].complianceResult.verdict.issues)

\* C4: Submit of content whose stored result has a high issue returns Blocked
\* and changes neither the content nor any workflow or step.
C4_HighNeverSubmitted ==
  [][\A id \in ContentIds :
       (Submit(id) /\ content[id].exists /\ HasHigh(content[id].complianceResult))
         => (resp'.error = "Blocked" /\ UNCHANGED db)]_vars

\* C5: content whose last evaluation failed (retrieval or generative backend)
\* does not pass the gate: no Submit of it succeeds.
C5_FailClosed ==
  \A id \in ContentIds : SubmitSucceeded => content[id].lastEval # "failed"

\* C6: Submit succeeds only for content that has a stored result.
C6_ResultRequired ==
  \A id \in ContentIds : SubmitSucceeded => content[id].complianceResult.kind # "null"

\* C7: when Submit succeeds, the stored result the gate examined was computed
\* from the current text of the content.
C7_ResultOfCurrentText ==
  \A id \in ContentIds :
    (SubmitSucceeded /\ content[id].complianceResult.kind # "null")
      => content[id].complianceResult.of = content[id].text

\* C8: a successful Approve of the IN_PROGRESS step k marks it APPROVED and
\* then either opens step k+1 (currentStep = k+1, content IN_REVIEW, workflow
\* still ACTIVE) when that step exists, or else completes the workflow
\* (COMPLETED, content APPROVED); never both, never neither.
C8_ApproveEffect ==
  [][(resp'.op = "approve" /\ resp'.code = 200 /\ steps' # steps) =>
       LET approved == {s \in steps : /\ s.status = "IN_PROGRESS"
                                      /\ StepExists(steps', s.id)
                                      /\ StepRow(steps', s.id).status = "APPROVED"}
           step == CHOOSE s \in approved : TRUE
           wf == step.workflowId
           cid == WorkflowRow(workflows, wf).contentId
           hasNext == StepExists(steps, StepId(wf, step.stepNumber + 1))
           advanced ==
             /\ StepExists(steps', StepId(wf, step.stepNumber + 1))
             /\ StepRow(steps', StepId(wf, step.stepNumber + 1)).status = "IN_PROGRESS"
             /\ WorkflowRow(workflows', wf).currentStep = step.stepNumber + 1
             /\ WorkflowRow(workflows', wf).status = "ACTIVE"
             /\ content'[cid].status = "IN_REVIEW"
           completed ==
             /\ WorkflowRow(workflows', wf).status = "COMPLETED"
             /\ content'[cid].status = "APPROVED"
       IN  /\ Cardinality(approved) = 1
           /\ hasNext => (advanced /\ ~completed)
           /\ ~hasNext => (completed /\ ~advanced
                             /\ \A s \in StepsOf(steps', wf) : s.status # "IN_PROGRESS")]_vars

C8_Witness ==
  /\ ApproveSucceeded
  /\ \E w \in workflows : w.status = "ACTIVE" /\ w.currentStep = 2
  /\ content["c1"].status = "IN_REVIEW"

\* the state a successful Submit must leave for content id
FreshlySubmitted(id) ==
  /\ Cardinality(WorkflowOf(workflows, id)) = 1
  /\ content[id].status = "PENDING_REVIEW"
  /\ \A w \in WorkflowOf(workflows, id) :
       /\ w.status = "ACTIVE"
       /\ w.currentStep = 1
       /\ {s.stepNumber : s \in StepsOf(steps, w.id)} = 1..3
       /\ Cardinality(StepsOf(steps, w.id)) = 3
       /\ \A s \in StepsOf(steps, w.id) :
            /\ s.requiredRole = <<"MANAGER", "LEGAL", "EXECUTIVE">>[s.stepNumber]
            /\ s.status = IF s.stepNumber = 1 THEN "IN_PROGRESS" ELSE "PENDING"
            /\ s.feedback = "" /\ s.assigneeId = NoUser /\ ~s.decided

\* workflows and steps with the identifiers left out
Anonymous ==
  [workflows |-> {[contentId |-> w.contentId, currentStep |-> w.currentStep,
                   status |-> w.status,
                   steps |-> {[stepNumber |-> s.stepNumber, requiredRole |-> s.requiredRole,
                               status |-> s.status, assigneeId |-> s.assigneeId,
                               feedback |-> s.feedback, decided |-> s.decided] :
                                 s \in StepsOf(steps, w.id)}] : w \in workflows},
   content |-> content]

\* C9: a successful Submit leaves exactly one workflow for the content: ACTIVE,
\* currentStep 1, steps 1..3 for MANAGER, LEGAL, EXECUTIVE, step 1 IN_PROGRESS,
\* the others PENDING and undecided, content PENDING_REVIEW; a second Submit
\* right after it leaves the same state apart from identifiers.
C9_SubmitResets ==
  [][\A id \in ContentIds :
       (Submit(id) /\ resp'.code = 200) =>
         /\ FreshlySubmitted(id)'
         /\ SubmitSucceeded => Anonymous' = Anonymous]_vars

C9_Witness == SubmitSucceeded /\ nextWf = 3 /\ FreshlySubmitted("c1")

\* C10: in a workflow with no rejected step, after one approval the content is
\* IN_REVIEW with step 2 IN_PROGRESS, after two step 3 is IN_PROGRESS, after
\* three the workflow is COMPLETED and the content APPROVED (until published);
\* the workflow is COMPLETED exactly when all of its steps are approved.
C10_ApprovalChain ==
  \A w \in workflows :
    StepsWith(w, "REJECTED") = {} =>
      LET a == Cardinality(StepsWith(w, "APPROVED"))
          n == Cardinality(StepsOf(steps, w.id))
      IN  /\ a = 0 => content[w.contentId].status = "PENDING_REVIEW"
          /\ (a > 0 /\ a < n) => content[w.contentId].status = "IN_REVIEW"
          /\ a < n => /\ w.status = "ACTIVE"
                      /\ InProgressSteps(w) = {StepRow(steps, StepId(w.id, a + 1))}
                      /\ \A s \in StepsWith(w, "APPROVED") : s.stepNumber <= a
          /\ a = n => /\ w.status = "COMPLETED"
                      /\ content[w.contentId].status \in {"APPROVED", "PUBLISHED"}
          /\ w.status = "COMPLETED" <=> a = n

C10_Witness ==
  /\ ApproveSucceeded
  /\ content["c1"].status = "APPROVED"
  /\ \E w \in workflows :
       /\ w.status = "COMPLETED"
       /\ StepRow(steps, StepId(w.id, 1)).assigneeId = "u_mgr"
       /\ StepRow(steps, StepId(w.id, 2)).assigneeId = "u_legal"
       /\ StepRow(steps, StepId(w.id, 3)).assigneeId = "u_exec"

\* C2: two Approve requests for the same step never both succeed: when both
\* are finished and one of them succeeded, the other did not (it was refused
\* with StateConflict or another error) and did not advance the workflow too.
C2_RaceSafety ==
  \A p \in ProcIds : \A q \in ProcIds \ {p} :
    (/\ reqs[p].pc = "done" /\ reqs[q].pc = "done"
     /\ reqs[p].op = "approve" /\ reqs[q].op = "approve"
     /\ reqs[p].sid = reqs[q].sid
     /\ reqs[p].code = 200)
      => reqs[q].code # 200

\* ================================================================ error handling

\* the steps a request can be aimed at, by their status
StepsIn(status) == {s \in steps : s.status = status}
StepsNot(status) == {s \in steps : s.status # status}

\* C11: an Approve of a step in progress by an existing user whose role is
\* not the step's required role (ADMIN included) can only answer RoleMismatch,
\* naming the required role and changing no table; and no APPROVED step has
\* an assignee whose role differs from the step's required role.
C11_RoleMismatch ==
  /\ \A s \in StepsIn("IN_PROGRESS") :
       \A userId \in ActingUsers \cap UserIds :
         Users[userId] # s.requiredRole =>
           ~ENABLED (/\ Approve(s.id, userId)
                     /\ ~(/\ resp'.error = "RoleMismatch"
                          /\ resp'.code = 403
                          /\ resp'.required = s.requiredRole
                          /\ UNCHANGED db))
  /\ \A s \in steps :
       (s.status = "APPROVED" /\ s.assigneeId # NoUser)
         => (s.assigneeId \in UserIds /\ Users[s.assigneeId] = s.requiredRole)

C13_RejectEffect ==
  \A s \in StepsIn("IN_PROGRESS") :
    \A userId \in RejectingUsers : \A feedback \in Feedbacks :
      LET cid == WorkflowRow(workflows, s.workflowId).contentId
      IN  ~ENABLED (/\ Reject(s.id, userId, feedback)
                    /\ resp'.code = 200
                    /\ ~(/\ \E r \in steps' :
                              /\ steps' = (steps \ {s}) \cup {r}
                              /\ r.id = s.id
                              /\ r.status = "REJECTED"
                              /\ r.feedback = feedback
                              /\ r.stepNumber = s.stepNumber
                              /\ r.requiredRole = s.requiredRole
                         /\ workflows' = workflows
                         /\ nextWf' = nextWf
                         /\ content' = [content EXCEPT
                                          ![cid].status = "CHANGES_REQUESTED"]))

\* the second step was rejected: the workflow is still there, ACTIVE at step
\* 2, with step 1 APPROVED and step 3 PENDING
C13_Witness ==
  /\ resp.op = "reject" /\ resp.code = 200
  /\ \E w \in workflows :
       /\ w.status = "ACTIVE" /\ w.currentStep = 2
       /\ content[w.contentId].status = "CHANGES_REQUESTED"
       /\ StepRow(steps, StepId(w.id, 1)).status = "APPROVED"
       /\ StepRow(steps, StepId(w.id, 2)).status = "REJECTED"
       /\ StepRow(steps, StepId(w.id, 2)).feedback = "fix claim X"
       /\ StepRow(steps, StepId(w.id, 3)).status = "PENDING"

\* C14: a Reject whose feedback is absent or empty can only answer 400
\* MissingFeedback, whatever step it names, changing no table; and no step
\* is REJECTED with empty feedback.
C14_FeedbackRequired ==
  /\ \A sid \in RequestStepIds : \A userId \in RejectingUsers :
       ~ENABLED (/\ Reject(sid, userId, "")
                 /\ ~(/\ resp'.error = "MissingFeedback" /\ resp'.code = 400
                      /\ UNCHANGED db))
  /\ \A s \in StepsIn("REJECTED") : s.feedback # ""

\* a Reject was refused for its feedback while a step was in progress
C14_Witness ==
  /\ resp.error = "MissingFeedback"
  /\ StepsIn("IN_PROGRESS") # {}


\* ================================================================ interleaved handlers

\* C15: a step that is APPROVED or REJECTED keeps that status in every
\* later state, whatever Approve and Reject requests on its workflow are in
\* flight.
C15_TerminalSteps ==
  [][\A s \in steps :
       s.status \in {"APPROVED", "REJECTED"}
         => \A t \in steps' : t.id = s.id => t.status = s.status]_vars


\* ================================================================ failing writes

\* no request is between two of its database calls
Quiescent == \A p \in ProcIds : reqs[p].pc \in {"idle", "done"}

\* the workflow of a content is as Submit creates it
FreshWorkflow(w) ==
  /\ w = NewWorkflow(w.id, w.contentId)
  /\ StepsOf(steps, w.id) = NewSteps(w.id)

\* C16: when a write of an accepted Approve, Reject or Submit fails, nothing
\* of the call stays behind.  Between requests no step is APPROVED while its
\* next step is still PENDING and currentStep still points at the approved
\* step; no content other than a DRAFT is without its workflow (deleted by
\* Submit, not recreated); and no workflow is as Submit creates it while its
\* content is not PENDING_REVIEW.
C16_AllOrNothing ==
  Quiescent =>
    /\ \A w \in workflows : \A s \in StepsOf(steps, w.id) :
         s.status = "APPROVED" =>
           \A n \in FindNextStep(StepsOf(steps, w.id), s) :
             ~(n.status = "PENDING" /\ w.currentStep = s.stepNumber)
    /\ \A id \in ContentIds :
         (content[id].exists /\ content[id].status # "DRAFT")
           => WorkflowOf(workflows, id) # {}
    /\ \A w \in workflows :
         FreshWorkflow(w) => content[w.contentId].status = "PENDING_REVIEW"


\* ================================================================ content lifecycle

\* C17: once the status of a content is PUBLISHED no request changes it, nor
\* the content's workflow row and step rows.
C17_PublishedTerminal ==
  [][\A id \in ContentIds :
       content[id].status = "PUBLISHED"
         => /\ content'[id].status = "PUBLISHED"
            /\ WorkflowOf(workflows', id) = WorkflowOf(workflows, id)
            /\ \A w \in WorkflowOf(workflows, id) :
                 StepsOf(steps', w.id) = StepsOf(steps, w.id)]_vars

\* the edges of the lifecycle of Content.status
LifecycleEdges ==
  {<<"DRAFT", "PENDING_REVIEW">>,
   <<"PENDING_REVIEW", "IN_REVIEW">>,
   <<"IN_REVIEW", "APPROVED">>,
   <<"PENDING_REVIEW", "CHANGES_REQUESTED">>,
   <<"IN_REVIEW", "CHANGES_REQUESTED">>,
   <<"CHANGES_REQUESTED", "PENDING_REVIEW">>,
   <<"APPROVED", "PUBLISHED">>}

\* C18: every change of the status of an existing content follows an edge
\* of the lifecycle; in particular no request takes IN_REVIEW or APPROVED
\* content back to PENDING_REVIEW.
C18_LifecycleEdges ==
  [][\A id \in ContentIds :
       (content[id].exists /\ content'[id].status # content[id].status)
         => <<content[id].status, content'[id].status>> \in LifecycleEdges]_vars

\* C19: on content whose status is not DRAFT or CHANGES_REQUESTED an Edit
\* can only be refused with 400, leaving the content row (text, version,
\* stored result) and every other table unchanged; so an Edit succeeds only
\* in DRAFT or CHANGES_REQUESTED.
C19_EditOnlyWhenEditable ==
  \A id \in ContentIds :
    (content[id].exists
       /\ content[id].status \notin {"DRAFT", "CHANGES_REQUESTED"})
      => \A text \in Texts \cup {NoText} : \A backend \in Backends :
           ~ENABLED (/\ EditContent(id, text, backend)
                     /\ ~(/\ resp'.code = 400
                          /\ resp'.error = "StateConflict"
                          /\ UNCHANGED db))

\* an Edit was refused on content under review
C19_Witness ==
  /\ resp.op = "edit" /\ resp.error = "StateConflict"
  /\ \E id \in ContentIds : content[id].status = "IN_REVIEW"


\* ================================================================ evaluator

\* the generative backend failed: the call rejected, or no JSON can be read
\* from the answer
BackendFailed(raw) ==
  \/ raw.call = "error"
  \/ raw.body \in {"garbage", "braces_garbage"}
  \/ raw.wrapper = "prose" /\ raw.body # "object"

\* C20: when the generative backend was reached and failed, checkCompliance
\* returns isCompliant = false with exactly one issue, the synthetic one;
\* and it returns isCompliant = true only when the call succeeded and the
\* answer parsed to an object whose isCompliant member is the JSON value true.
C20_FailClosedVerdict ==
  reqs.pc = "returned" =>
    /\ (reqs.retrievalOk /\ BackendFailed(reqs.raw))
         => /\ ~resp.threw
            /\ resp.verdict.isCompliant = FALSE
            /\ resp.verdict.issues = << Issue("medium", "api_error") >>
    /\ (~resp.threw /\ resp.verdict.isCompliant)
         => /\ reqs.raw.call = "ok"
            /\ reqs.raw.body = "object"
            /\ reqs.raw.isCompliant = "true"

\* a call returned the fallback for an answer in braces that is no JSON
C20_Witness ==
  /\ reqs.pc = "returned"
  /\ reqs.retrievalOk
  /\ reqs.raw.call = "ok" /\ reqs.raw.body = "braces_garbage"
  /\ resp.verdict.issues = << Issue("medium", "api_error") >>


\* ================================================================ rule matching

\* the first check of a call has returned, and its read of the table succeeded
FirstChecked == reqs.pc # "first" /\ reqs.dbOk[1]

\* the patterns of a list of rules or violations
Patterns(vs) == [i \in 1..Len(vs) |-> vs[i].pattern]

\* the active rows of the table whose pattern occurs in the text
ActiveMatches(table, text) ==
  SelectSeq(table, LAMBDA r :
     r.isActive /\ includes(toLowerCase(text), toLowerCase(r.pattern)))

\* C21: when policy_rules holds no active row, a check whose read of the
\* table succeeds returns isCompliant = true and no issue, whatever the text.
C21_NoRulesNoIssues ==
  (FirstChecked /\ \A i \in DOMAIN reqs.table : ~reqs.table[i].isActive)
    => /\ reqs.first.isCompliant
       /\ reqs.first.violations = <<>>

\* C22: the issues of a check come high before medium before low, and issues
\* of one severity come in the order in which their rules were created.
C22_SeverityThenInsertion ==
  FirstChecked =>
    LET vs == reqs.first.violations
    IN  \A i \in 1..Len(vs) : \A j \in (i + 1)..Len(vs) :
          /\ severityOrder[vs[i].severity] <= severityOrder[vs[j].severity]
          /\ vs[i].severity = vs[j].severity => vs[i].createdAt < vs[j].createdAt

\* C23: the rewrite a check suggests holds none of the patterns of the rules
\* that matched the text, letter case ignored.
C23_RewriteFreeOfPatterns ==
  FirstChecked =>
    \A i \in 1..Len(reqs.first.violations) :
      ~includes(toLowerCase(reqs.first.suggestedRewrite),
                toLowerCase(reqs.first.violations[i].pattern))

\* C24: two checks of the same text against the same table return the same
\* issues and the same rewrite, whether or not either read of the table
\* succeeded.
C24_SameResultTwice ==
  reqs.pc = "done" =>
    /\ reqs.first.violations = reqs.second.violations
    /\ reqs.first.suggestedRewrite = reqs.second.suggestedRewrite
    /\ reqs.first.isCompliant = reqs.second.isCompliant

\* the check of scenario A: the demo rules, read from the table
ScenarioA == FirstChecked /\ reqs.table = DEMO_RULES /\ reqs.text = T_ScenarioA

\* C25 as stated: scenario A yields three issues, high for "100% waterproof"
\* and "never fails" and medium for "guaranteed", and a rewrite in which all
\* three phrases are replaced.
C25_ScenarioA_Stated ==
  ScenarioA =>
    LET vs == reqs.first.violations
    IN  /\ ~reqs.first.isCompliant
        /\ Len(vs) = 3
        /\ {<<vs[i].pattern, vs[i].severity>> : i \in 1..Len(vs)}
             = {<<P_100_waterproof, "high">>, <<P_never_fails, "high">>,
                <<P_guaranteed, "medium">>}
        /\ \A i \in 1..Len(vs) :
             ~includes(toLowerCase(reqs.first.suggestedRewrite), toLowerCase(vs[i].pattern))

\* C25: scenario A yields isCompliant = false and three issues: high for
\* "100% waterproof", then medium for "waterproof" and for "guaranteed"
\* ("never fails" does not occur in "... to never fail."); the rewrite is
\* "Our phone is water-resistant (IP67 rated) and designed to to never fail."
C25_ScenarioA ==
  ScenarioA =>
    /\ ~reqs.first.isCompliant
    /\ Patterns(reqs.first.violations)
         = <<P_100_waterproof, P_waterproof, P_guaranteed>>
    /\ [i \in 1..3 |-> reqs.first.violations[i].severity]
         = <<"high", "medium", "medium">>
    /\ reqs.first.suggestedRewrite = T_Rewritten

\* scenario A was checked and three issues came back
C25_Witness == ScenarioA /\ Len(reqs.first.violations) = 3

\* C26: a check returns isCompliant = true exactly when no active rule's
\* pattern occurs in the text, letter case ignored; and then it returns no
\* issue and the text itself as the rewrite.
C26_CompliantIffNoMatch ==
  FirstChecked =>
    /\ reqs.first.isCompliant <=> ActiveMatches(reqs.table, reqs.text) = <<>>
    /\ reqs.first.isCompliant
         => /\ reqs.first.violations = <<>>
            /\ reqs.first.suggestedRewrite = reqs.text

\* ================================================================ audit history
\* the rows of approval_steps that record a rejection of step 1 of the
\* workflow of content id
RejectedHistory(id) ==
  {s \in steps :
     /\ s.workflowId \in {w.id : w \in WorkflowOf(workflows, id)}
     /\ s.stepNumber = 1 /\ s.status = "REJECTED" /\ s.feedback # ""}

\* C27: after Reject of step 1 with feedback, an Edit and a successful second
\* Submit, the rejected workflow and its steps (REJECTED status, feedback)
\* still exist beside the freshly created workflow.
C27_RejectedHistoryKept ==
  \A id \in ContentIds :
    ~ENABLED (/\ content[id].status = "CHANGES_REQUESTED"
              /\ resp.op = "edit" /\ resp.code = 200
              /\ RejectedHistory(id) # {}
              /\ Submit(id)
              /\ resp'.code = 200
              /\ ~(/\ RejectedHistory(id) \subseteq steps'
                   /\ WorkflowOf(workflows, id) \subseteq workflows'))

\* ================================================================ concurrent Submit

\* C28: under any interleaving of Submit calls for one content, no state holds
\* two workflows of that content, and once the calls are over a content in
\* PENDING_REVIEW has its workflow.
C28_OneWorkflowPerContent ==
  \A id \in ContentIds :
    /\ Cardinality(WorkflowOf(workflows, id)) <= 1
    /\ (Quiescent /\ content[id].status = "PENDING_REVIEW")
         => WorkflowOf(workflows, id) # {}

\* two Submit calls overlapped: one of them created the workflow and is past
\* its last write, the other read the content before that workflow existed
\* and was refused by the unique index
C28_Witness ==
  /\ reqs["p1"].op = "submit" /\ reqs["p1"].pc = "done" /\ reqs["p1"].code = 200
  /\ reqs["p2"].op = "submit" /\ reqs["p2"].pc = "done" /\ reqs["p2"].code = 500
  /\ reqs["p2"].workflow = {}
  /\ Cardinality(WorkflowOf(workflows, "c1")) = 1
  /\ content["c1"].status = "PENDING_REVIEW"

\* ================================================================ audit log

\* the answer to the same request when both inserts go through
LoggedAnswer ==
  PostCheck(reqs.text,
            [retrievalOk |-> reqs.retrievalOk, reply |-> ParseReply(reqs.raw)],
            <<TRUE, TRUE>>)

\* C29: when the insert of the audit entry fails, the check answers with the
\* verdict it answers with when the insert goes through, and with an error
\* only when the check itself threw.
C29_LogFailureHarmless ==
  (reqs.pc = "answered" /\ reqs.text # NoText) =>
    /\ resp.code = LoggedAnswer.code
    /\ resp.verdict = LoggedAnswer.verdict
    /\ resp.code = IF reqs.retrievalOk THEN 200 ELSE 500

\* a check answered with a compliant verdict although no entry was written
C29_Witness ==
  /\ reqs.pc = "answered" /\ reqs.text # NoText
  /\ ~reqs.createOk[1]
  /\ reqs.sink = <<>>
  /\ resp.code = 200
  /\ resp.verdict.isCompliant

\* ================================================================ missing rows

\* the request was answered 404 and no table changed
AnsweredNotFound == resp'.error = "NotFound" /\ resp'.code = 404 /\ db' = db

\* C30: a request that names a content, a step or an acting user that does
\* not exist is answered NotFound and changes nothing: Approve by a user id
\* that matches no user, Approve and Reject of a step that does not exist
\* (whatever the feedback), Reject by a user that does not exist, and Edit,
\* Submit and Publish of a content that does not exist.
C30_NotFound ==
  /\ \A sid \in RequestStepIds, userId \in ActingUsers :
       (~StepExists(steps, sid) \/ userId = GhostUser)
         => ~ENABLED (Approve(sid, userId) /\ ~AnsweredNotFound)
  /\ \A sid \in RequestStepIds, userId \in RejectingUsers, feedback \in Feedbacks :
       (~StepExists(steps, sid) \/ userId = GhostUser)
         => ~ENABLED (Reject(sid, userId, feedback) /\ ~AnsweredNotFound)
  /\ \A id \in ContentIds :
       ~content[id].exists
         => /\ ~ENABLED (Submit(id) /\ ~AnsweredNotFound)
            /\ ~ENABLED (Publish(id) /\ ~AnsweredNotFound)
            /\ \A text \in Texts, backend \in Backends :
                 ~ENABLED (EditContent(id, text, backend) /\ ~AnsweredNotFound)

\* ================================================================ empty text

\* the request was answered InvalidInput and no table changed
AnsweredInvalidInput == resp'.error = "InvalidInput" /\ resp'.code = 400 /\ db' = db

\* C31: a text that is empty after trimming is refused with InvalidInput by
\* the check endpoint, by Create and by Edit, nothing is evaluated or stored,
\* and no stored content has such a text.
C31_EmptyTextRefused ==
  /\ \A id \in ContentIds : content[id].exists => trim(content[id].text) # NoText
  /\ \A text \in InputTexts, backend \in Backends :
       trim(text) = NoText =>
         /\ ~ENABLED (CheckHandler(text, backend) /\ ~AnsweredInvalidInput)
         /\ \A id \in ContentIds :
              /\ ~ENABLED (CreateContent(id, text, "u_des", backend)
                             /\ ~AnsweredInvalidInput)
              /\ content[id].exists
                   => ~ENABLED (EditContent(id, text, backend) /\ ~AnsweredInvalidInput)

\* ================================================================ step order

\* the steps of workflow wf in table tbl that are IN_PROGRESS
InProgressIn(tbl, wf) == {s \in StepsOf(tbl, wf) : s.status = "IN_PROGRESS"}

\* C32: under any interleaving of Approve and Reject handlers, a workflow
\* never has two steps IN_PROGRESS, a step becomes IN_PROGRESS only when
\* every lower-numbered step of its workflow is APPROVED, and currentStep
\* never decreases.
C32_StepOrder ==
  [][\A w \in workflows' :
       /\ Cardinality(InProgressIn(steps', w.id)) <= 1
       /\ \A s \in InProgressIn(steps', w.id) :
            s \notin InProgressIn(steps, w.id)
              => \A t \in StepsOf(steps', w.id) :
                   t.stepNumber < s.stepNumber => t.status = "APPROVED"
       /\ \A v \in workflows : v.id = w.id => v.currentStep <= w.currentStep]_vars

\* ================================================================ version

\* C33: the version of a content is 1 when it is created, a successful Edit
\* that replaces the text increases it by exactly 1, Submit, Approve, Reject
\* and Publish leave it alone, and no request decreases it.
C33_VersionCounts ==
  [][\A id \in ContentIds :
       /\ (~content[id].exists /\ content'[id].exists) => content'[id].version = 1
       /\ content[id].exists =>
            /\ content'[id].version >= content[id].version
            /\ (resp'.op = "edit" /\ resp'.code = 200
                  /\ content'[id].text # content[id].text)
                 => content'[id].version = content[id].version + 1
            /\ resp'.op \in {"submit", "approve", "reject", "publish"}
                 => content'[id].version = content[id].version]_vars

\* an Edit replaced the text of a created content and a Submit followed
C33_Witness ==
  /\ content["c1"].text = "t2" /\ content["c1"].version = 2
  /\ SubmitSucceeded

\* ================================================================ overlapping patterns

\* the rules the first check of the call worked with
LoadedRules == getRules(reqs.table, reqs.dbOk[1])

\* C34: every high-severity rule of the check whose pattern occurs in the
\* text is among the issues, with its severity, also when a shorter rule of
\* lower severity whose pattern is part of it matches the same text.
C34_HighNeverMasked ==
  reqs.pc # "first" =>
    \A i \in 1..Len(LoadedRules) :
      (/\ LoadedRules[i].severity = "high"
       /\ includes(toLowerCase(reqs.text), toLowerCase(LoadedRules[i].pattern)))
        => \E j \in 1..Len(reqs.first.violations) :
             /\ reqs.first.violations[j].pattern = LoadedRules[i].pattern
             /\ reqs.first.violations[j].severity = "high"

\* "100% waterproof" (high) and "waterproof" (medium), which is part of it,
\* both matched; the query gave the medium rule first
C34_Witness ==
  /\ reqs.pc # "first" /\ reqs.dbOk[1] /\ reqs.table = DEMO_RULES
  /\ LoadedRules[1].severity = "medium"
  /\ \E i, j \in 1..Len(reqs.first.violations) :
       /\ reqs.first.violations[i].pattern = P_100_waterproof
       /\ reqs.first.violations[i].severity = "high"
       /\ reqs.first.violations[j].pattern = P_waterproof
       /\ reqs.first.violations[j].severity = "medium"

\* ================================================================ approved content

\* C35: whenever the status of a content is APPROVED or PUBLISHED its
\* workflow exists, is COMPLETED and has every step APPROVED, also when a
\* Submit of the content runs together with the Approve of the last step.
C35_ApprovedMeansCompleted ==
  \A id \in ContentIds :
    (content[id].exists /\ content[id].status \in {"APPROVED", "PUBLISHED"})
      => /\ WorkflowOf(workflows, id) # {}
         /\ \A w \in WorkflowOf(workflows, id) :
              /\ w.status = "COMPLETED"
              /\ \A s \in StepsOf(steps, w.id) : s.status = "APPROVED"

\* ================================================================ Approve against Reject

\* C36: once an Approve and a Reject of the same IN_PROGRESS step are both
\* over, the state is that of one of them alone: the step is not REJECTED
\* while the next step is IN_PROGRESS, currentStep has moved past it, the
\* workflow is COMPLETED or the content is IN_REVIEW or APPROVED.
C36_ApproveOrReject ==
  Quiescent =>
    \A w \in workflows : \A s \in StepsOf(steps, w.id) :
      s.status = "REJECTED" =>
        /\ \A n \in FindNextStep(StepsOf(steps, w.id), s) : n.status # "IN_PROGRESS"
        /\ w.currentStep <= s.stepNumber
        /\ w.status # "COMPLETED"
        /\ content[w.contentId].status \notin
             (IF s.stepNumber = 1 THEN {"IN_REVIEW", "APPROVED"} ELSE {"APPROVED"})

\* ================================================================ roles

\* C37: Reject of an IN_PROGRESS step with feedback succeeds for every user,
\* whatever the user's role, and for no user at all: the step becomes
\* REJECTED with that user as assignee and the content CHANGES_REQUESTED.
C37_RejectByAnyRole ==
  \A sid \in RequestStepIds, userId \in UserIds \cup {NoUser},
     feedback \in Feedbacks \ {""} :
    (StepExists(steps, sid) /\ StepRow(steps, sid).status = "IN_PROGRESS")
      => ~ENABLED (/\ Reject(sid, userId, feedback)
                   /\ ~(/\ resp'.code = 200
                        /\ StepRow(steps', sid).status = "REJECTED"
                        /\ userId # NoUser => StepRow(steps', sid).assigneeId = userId
                        /\ content'[WorkflowRow(workflows, sid[1]).contentId].status
                             = "CHANGES_REQUESTED"))

\* a step was rejected by a user whose role is not the one the step requires
C37_Witness ==
  /\ resp.op = "reject" /\ resp.code = 200
  /\ \E s \in steps :
       /\ s.status = "REJECTED"
       /\ s.assigneeId \in UserIds
       /\ Users[s.assigneeId] # s.requiredRole

\* C38: an Approve without userId passes the role check on every IN_PROGRESS
\* step, whatever role the step requires, and leaves the step APPROVED with
\* no assignee; a workflow can so be COMPLETED with no user on any step.
C38_AnonymousApprove ==
  \A sid \in RequestStepIds :
    (StepExists(steps, sid) /\ StepRow(steps, sid).status = "IN_PROGRESS")
      => ~ENABLED (/\ Approve(sid, NoUser)
                   /\ ~(/\ resp'.code = 200
                        /\ StepRow(steps', sid).status = "APPROVED"
                        /\ StepRow(steps', sid).assigneeId = NoUser))

\* a workflow is COMPLETED, its three steps APPROVED, none with an assignee
C38_Witness ==
  \E w \in workflows :
    /\ w.status = "COMPLETED"
    /\ content[w.contentId].status = "APPROVED"
    /\ {s.requiredRole : s \in StepsOf(steps, w.id)} = {"MANAGER", "LEGAL", "EXECUTIVE"}
    /\ \A s \in StepsOf(steps, w.id) : s.status = "APPROVED" /\ s.assigneeId = NoUser

\* ================================================================ frame of Edit

\* C39: a successful Edit leaves the status of the content (CHANGES_REQUESTED
\* stays CHANGES_REQUESTED), the workflows and every step, a REJECTED step
\* and its feedback included, as they were.
C39_EditFrame ==
  [][(resp'.op = "edit" /\ resp'.code = 200) =>
       /\ \A id \in ContentIds :
            /\ content'[id].status = content[id].status
            /\ content'[id].exists = content[id].exists
       /\ workflows' = workflows
       /\ steps' = steps
       /\ nextWf' = nextWf]_vars

\* a content in CHANGES_REQUESTED was edited; its rejected step is in place
C39_Witness ==
  /\ resp.op = "edit" /\ resp.code = 200
  /\ content["c1"].status = "CHANGES_REQUESTED"
  /\ content["c1"].version = 2
  /\ \E s \in steps : s.status = "REJECTED" /\ s.feedback = "fix claim X"

\* ================================================================ chunking

\* C40: every pass of the loop of chunkText moves start forward, and the
\* chunks are no more than the characters of the text, so the loop ends for
\* every text.
C40_ChunkTextTerminates ==
  [][reqs.pc = "loop" =>
       /\ reqs'.start > reqs.start
       /\ reqs'.chunks <= reqs.len]_vars

============================================================================
